---- MODULE Spec2Model ----
(***************************************************************************)
(* Veil: healthcare records web application.                               *)
(*                                                                         *)
(* The model covers the REST route handlers (appointments, prescriptions,  *)
(* patients), the relational store they read and write through the ORM,    *)
(* the blockchain record of prescriptions, the client page that issues a   *)
(* prescription on both stores, and the anonymous-prescription commitment  *)
(* scheme (generateCommitment, generateZKProof, the create page and the    *)
(* verification page).                                                      *)
(*                                                                         *)
(* Every route handler is a function from (store, request) to              *)
(* (response, store, ORM calls made); the action of a handler applies that *)
(* function to the current store.                                          *)
(***************************************************************************)
EXTENDS Integers, Sequences, FiniteSets, TLC

(***************************************************************************)
(* Bounds                                                                  *)
(***************************************************************************)
MaxAppointments == 2
MaxTime == 2
MaxPrescriptions == 1
MaxChainPrescriptions == 1
MaxAnonymous == 2
MaxClock == 1
MaxRows == 2
MaxConcurrent == 2

(***************************************************************************)
(* Users, sessions and inputs                                              *)
(***************************************************************************)
\* getCurrentUser() returned undefined: no authenticated user.
NoUser == "anonymous"
Users == {"u1", "u2", "u3", "u4", "u5"}
Callers == Users \cup {NoUser}

\* A JSON value that is not of the type the schema demands.
NotAString == "#not-a-string"
NotADatetime == 0
\* An absent optional value (undefined / null / missing query parameter).
Absent == "#absent"

Times == 1..MaxTime

AppointmentStatus == {"PENDING", "CONFIRMED", "CANCELED"}

Roles == {"unset", "patient", "doctor"}

\* Wallet address of each user's session (user.address).
WalletOf(u) ==
  CASE u = "u1" -> "0xa1"
    [] u = "u2" -> "0xa2"
    [] u = "u3" -> "0xa3"
    [] u = "u4" -> "0xa4"
    [] u = "u5" -> "0xa5"
    [] OTHER -> Absent

\* `0x${Math.random().toString(16).substr(2, 40)}`: at most 14 hexadecimal
\* digits, so never a 40-digit wallet address; the n-th draw is the value n.
PlaceholderAddress(n) == "0xrnd" \o ToString(n)

VARIABLES
  userRole,        \* db.user: role of each user
  doctors,         \* db.doctor: sequence of [id, userId, blockId]
  patients,        \* db.patient: sequence of [id, userId, blockId]
  appointments,    \* db.appointment: sequence of [id, doctorId, patientId, startTime, endTime, status]
  prescriptions,   \* db.prescription: sequence of records
  chain,           \* Medical contract: prescriptions(i), i = 1..prescriptionCounter
  anonymous,       \* MedicalWithZK / ZKPrescriptionVerifier: anonymous prescriptions
  txLog,           \* calldata of the issueAnonymousPrescription transactions sent
  verification,    \* VerifyPrescriptionPage: the entered form and verificationResult
  page,            \* CreatePrescriptionPage: outcome of the last handleSubmit
  clock,           \* Math.floor(Date.now() / 1000)
  response,        \* the last HTTP response sent: [op, status]
  inflight         \* POST /api/appointments requests between two awaits: [pc, req, patient]

vars == <<userRole, doctors, patients, appointments, prescriptions, chain,
          anonymous, txLog, verification, page, clock, response, inflight>>


(***************************************************************************)
(* Sequence helpers                                                        *)
(***************************************************************************)
Range(s) == {s[i] : i \in DOMAIN s}


(***************************************************************************)
(* db.appointment / db.patient / db.doctor                                 *)
(***************************************************************************)
PatientsOfUser(pats, u) == SelectSeq(pats, LAMBDA p : p.userId = u)
\* A lookup that ignores the user.
DoctorsOfUser_Any(docs, u) == docs
DoctorsOfUser(docs, u) == SelectSeq(docs, LAMBDA d : d.userId = u)
\* A lookup that ignores the id.
DoctorsWithId_Any(docs, id) == docs
DoctorsWithId(docs, id) == SelectSeq(docs, LAMBDA d : d.id = id)
PatientsWithId(pats, id) == SelectSeq(pats, LAMBDA p : p.id = id)

NewPatientId(pats) == "p" \o ToString(Len(pats) + 1)
NewAppointmentId(appts) == "a" \o ToString(Len(appts) + 1)

(***************************************************************************)
(* POST /api/appointments                                                  *)
(***************************************************************************)
\* appointmentSchema.parse(json)
ValidAppointmentBody(b) ==
  /\ b.doctorId # NotAString
  /\ b.startTime # NotADatetime
  /\ b.endTime # NotADatetime

\* The conflict query without its clause on the patient.
ConflictsWith_DoctorOnly(a, doctorId, patientId, startDateTime, endDateTime) ==
  /\ a.doctorId = doctorId
  /\ a.startTime <= endDateTime
  /\ a.endTime >= startDateTime
  /\ a.status \in {"PENDING", "CONFIRMED"}

\* The where-clause of the conflict query for one stored appointment.
ConflictsWith(a, doctorId, patientId, startDateTime, endDateTime) ==
  \/ /\ a.doctorId = doctorId
     /\ a.startTime <= endDateTime
     /\ a.endTime >= startDateTime
     /\ a.status \in {"PENDING", "CONFIRMED"}
  \/ /\ a.patientId = patientId
     /\ a.startTime <= endDateTime
     /\ a.endTime >= startDateTime
     /\ a.status \in {"PENDING", "CONFIRMED"}

ApptResult(status, roles, pats, appts, calls, body) ==
  [status |-> status, userRole |-> roles, patients |-> pats,
   appointments |-> appts, calls |-> calls, body |-> body]

\* req = [user, body = [wellformed, doctorId, startTime, endTime]]
AppointmentsPOST(roles, docs, pats, appts, req) ==
  IF req.user = NoUser
  THEN ApptResult(401, roles, pats, appts, <<>>, <<>>)
  ELSE IF ~req.body.wellformed
  THEN \* req.json() throws a SyntaxError, which is not a ZodError
       ApptResult(500, roles, pats, appts, <<>>, <<>>)
  ELSE IF ~ValidAppointmentBody(req.body)
  THEN ApptResult(400, roles, pats, appts, <<>>, <<>>)
  ELSE
    LET doctorId == req.body.doctorId
        startDateTime == req.body.startTime
        endDateTime == req.body.endTime
        found == PatientsOfUser(pats, req.user)
        created == [id |-> NewPatientId(pats), userId |-> req.user,
                    blockId |-> PlaceholderAddress(Len(pats) + 1)]
        patient == IF found # <<>> THEN found[1] ELSE created
        pats1 == IF found # <<>> THEN pats ELSE Append(pats, created)
        roles1 == IF found # <<>> THEN roles
                  ELSE [roles EXCEPT ![req.user] = "patient"]
        calls1 == IF found # <<>> THEN <<"patient.findFirst">>
                  ELSE <<"patient.findFirst", "patient.create", "user.update">>
        doctor == DoctorsWithId(docs, doctorId)
        calls2 == Append(calls1, "doctor.findUnique")
    IN
    IF doctor = <<>>
    THEN ApptResult(404, roles1, pats1, appts, calls2, <<>>)
    ELSE
      LET calls3 == calls2 \o <<"req_access.findUnique", "appointment.findFirst">>
          conflictingAppointment ==
            SelectSeq(appts, LAMBDA a :
              ConflictsWith(a, doctorId, patient.id, startDateTime, endDateTime))
          appointment == [id |-> NewAppointmentId(appts), doctorId |-> doctorId,
                          patientId |-> patient.id, startTime |-> startDateTime,
                          endTime |-> endDateTime, status |-> "PENDING"]
      IN
      IF conflictingAppointment # <<>>
      THEN ApptResult(409, roles1, pats1, appts, calls3, <<>>)
      ELSE ApptResult(200, roles1, pats1, Append(appts, appointment),
                      Append(calls3, "appointment.create"), <<appointment>>)

\* Bodies that pass the schema, one body per way of failing it, and a body
\* that is not JSON.
AppointmentBodies ==
  [wellformed : {TRUE}, doctorId : {"d1", "d2", "d9"}, startTime : Times, endTime : Times]
  \cup
  { [wellformed |-> TRUE, doctorId |-> NotAString, startTime |-> 1, endTime |-> 1],
    [wellformed |-> TRUE, doctorId |-> "d1", startTime |-> NotADatetime, endTime |-> 1],
    [wellformed |-> TRUE, doctorId |-> "d1", startTime |-> 1, endTime |-> NotADatetime],
    [wellformed |-> FALSE, doctorId |-> NotAString, startTime |-> NotADatetime,
     endTime |-> NotADatetime] }

\* The callers who book: a doctor without a patient record, a patient, and a
\* request without a session.
AppointmentBookers == {"u1", "u2", NoUser}
\* The callers who list: the bookers and a user without any profile.
AppointmentListers == {"u1", "u2", "u3", NoUser}

AppointmentPostRequests == [user : AppointmentBookers, body : AppointmentBodies]

PostAppointments(req) ==
  LET r == AppointmentsPOST(userRole, doctors, patients, appointments, req) IN
  /\ Len(r.appointments) <= MaxAppointments
  /\ userRole' = r.userRole
  /\ patients' = r.patients
  /\ appointments' = r.appointments
  /\ response' = [op |-> "POST /api/appointments", status |-> r.status]
  /\ UNCHANGED <<doctors, prescriptions, chain, anonymous, txLog, verification,
                 page, clock, inflight>>

(***************************************************************************)
(* GET /api/appointments                                                   *)
(***************************************************************************)
\* Array.prototype.sort / orderBy desc on <<key, row>> pairs: insert pair x
\* into a list ordered by key, descending; rows with an equal key keep their
\* order of arrival.
RECURSIVE InsertDesc(_, _)
InsertDesc(sorted, x) ==
  IF sorted = <<>> THEN <<x>>
  ELSE IF x[1] > Head(sorted)[1] THEN <<x>> \o sorted
  ELSE <<Head(sorted)>> \o InsertDesc(Tail(sorted), x)

RECURSIVE SortPairsDesc(_)
SortPairsDesc(pairs) ==
  IF pairs = <<>> THEN <<>>
  ELSE InsertDesc(SortPairsDesc(SubSeq(pairs, 1, Len(pairs) - 1)), pairs[Len(pairs)])

\* orderBy: { startTime: "desc" }
SortByStartTimeDesc(rows) ==
  LET sorted == SortPairsDesc([i \in DOMAIN rows |-> <<rows[i].startTime, rows[i]>>])
  IN [i \in DOMAIN sorted |-> sorted[i][2]]

\* orderBy: { issueDate: 'desc' } and
\* sort((a, b) => new Date(b.issueDate).getTime() - new Date(a.issueDate).getTime())
SortByIssueDateDesc(rows) ==
  LET sorted == SortPairsDesc([i \in DOMAIN rows |-> <<rows[i].issueDate, rows[i]>>])
  IN [i \in DOMAIN sorted |-> sorted[i][2]]

\* take: limit, skip: offset
Page(rows, limit, offset) ==
  SubSeq(rows, offset + 1, IF offset + limit < Len(rows) THEN offset + limit ELSE Len(rows))

GetResult(status, calls, body) == [status |-> status, calls |-> calls, body |-> body]

\* A where-clause that leaves the owner out.
AppointmentsWhere_StatusOnly(a, isDoctor, profileId, status) ==
  status # Absent => a.status = status

\* where: doctorId or patientId of the caller's profile, and the status when
\* the query names one.
AppointmentsWhere(a, isDoctor, profileId, status) ==
  /\ IF isDoctor THEN a.doctorId = profileId ELSE a.patientId = profileId
  /\ status # Absent => a.status = status

\* req = [user, status, limit, offset]
AppointmentsGET(roles, docs, pats, appts, req) ==
  IF req.user = NoUser
  THEN GetResult(401, <<>>, <<>>)
  ELSE
    LET isDoctor == roles[req.user] = "doctor"
        userProfile == IF isDoctor THEN DoctorsOfUser(docs, req.user)
                       ELSE PatientsOfUser(pats, req.user)
        calls1 == <<"user.findUnique",
                    IF isDoctor THEN "doctor.findFirst" ELSE "patient.findFirst">>
    IN
    IF userProfile = <<>>
    THEN GetResult(404, calls1, <<>>)
    ELSE IF req.status \notin AppointmentStatus \cup {Absent}
    THEN \* the ORM rejects a status that is not a member of the enum
         GetResult(500, Append(calls1, "appointment.findMany"), <<>>)
    ELSE
      LET mine == SelectSeq(appts, LAMBDA a :
                    AppointmentsWhere(a, isDoctor, userProfile[1].id, req.status))
          ordered == SortByStartTimeDesc(mine)
      IN GetResult(200, calls1 \o <<"appointment.findMany", "appointment.count">>,
                   Page(ordered, req.limit, req.offset))

AppointmentGetRequests ==
  [user : AppointmentListers, status : AppointmentStatus \cup {Absent, "BOGUS"},
   limit : {10}, offset : {0}]
  \cup [user : AppointmentListers, status : {Absent}, limit : {1}, offset : {1}]

GetAppointments(req) ==
  LET r == AppointmentsGET(userRole, doctors, patients, appointments, req) IN
  /\ response' = [op |-> "GET /api/appointments", status |-> r.status]
  /\ UNCHANGED <<userRole, doctors, patients, appointments, prescriptions, chain,
                 anonymous, txLog, verification, page, clock, inflight>>

\* The status of a stored appointment is replaced (confirmation or
\* cancellation of a request).
SetAppointmentStatus(i, st) ==
  /\ i \in DOMAIN appointments
  /\ appointments[i].status # st
  /\ appointments' = [appointments EXCEPT ![i].status = st]
  /\ UNCHANGED <<userRole, doctors, patients, prescriptions, chain, anonymous,
                 txLog, verification, page, clock, response, inflight>>

(***************************************************************************)
(* POST /api/appointments, one await at a time                             *)
(***************************************************************************)
\* The requests that arrive, each handled in a slot of its own.
Slots == 1..MaxConcurrent

\* The request of the slot has not arrived yet.
Idle == [pc |-> "idle", req |-> Absent, patient |-> Absent]
\* The request of the slot has been answered.
Done == [pc |-> "done", req |-> Absent, patient |-> Absent]

\* db.patient.create accepts a second row with the same userId: the handlers
\* look a patient up by userId with findFirst, never with findUnique.
PatientCreate(pats, row) == Append(pats, row)

Respond(s, status) ==
  /\ response' = [op |-> "POST /api/appointments", status |-> status]
  /\ inflight' = [inflight EXCEPT ![s] = Done]

\* From the start of the handler to the result of db.patient.findFirst.
BeginPost(s, req) ==
  /\ inflight[s].pc = "idle"
  /\ UNCHANGED <<userRole, doctors, patients, appointments, prescriptions, chain,
                 anonymous, txLog, verification, page, clock>>
  /\ IF req.user = NoUser THEN Respond(s, 401)
     ELSE IF ~req.body.wellformed THEN Respond(s, 500)
     ELSE IF ~ValidAppointmentBody(req.body) THEN Respond(s, 400)
     ELSE
       LET found == PatientsOfUser(patients, req.user) IN
       /\ inflight' = [inflight EXCEPT ![s] =
            [pc |-> IF found = <<>> THEN "patient.create" ELSE "doctor.findUnique",
             req |-> req,
             patient |-> IF found = <<>> THEN Absent ELSE found[1]]]
       /\ UNCHANGED response

\* db.patient.create
CreatePatient(s) ==
  /\ inflight[s].pc = "patient.create"
  /\ LET created == [id |-> NewPatientId(patients), userId |-> inflight[s].req.user,
                     blockId |-> PlaceholderAddress(Len(patients) + 1)]
     IN /\ patients' = PatientCreate(patients, created)
        /\ inflight' = [inflight EXCEPT ![s].pc = "user.update", ![s].patient = created]
  /\ UNCHANGED <<userRole, doctors, appointments, prescriptions, chain, anonymous,
                 txLog, verification, page, clock, response>>

\* db.user.update
UpdateUser(s) ==
  /\ inflight[s].pc = "user.update"
  /\ userRole' = [userRole EXCEPT ![inflight[s].req.user] = "patient"]
  /\ inflight' = [inflight EXCEPT ![s].pc = "doctor.findUnique"]
  /\ UNCHANGED <<doctors, patients, appointments, prescriptions, chain, anonymous,
                 txLog, verification, page, clock, response>>

\* db.doctor.findUnique and db.req_access.findUnique
FindDoctor(s) ==
  /\ inflight[s].pc = "doctor.findUnique"
  /\ IF DoctorsWithId(doctors, inflight[s].req.body.doctorId) = <<>>
     THEN Respond(s, 404)
     ELSE /\ inflight' = [inflight EXCEPT ![s].pc = "appointment.findFirst"]
          /\ UNCHANGED response
  /\ UNCHANGED <<userRole, doctors, patients, appointments, prescriptions, chain,
                 anonymous, txLog, verification, page, clock>>

\* db.appointment.findFirst: the conflict query
FindConflict(s) ==
  /\ inflight[s].pc = "appointment.findFirst"
  /\ LET b == inflight[s].req.body
         conflictingAppointment ==
           SelectSeq(appointments, LAMBDA a :
             ConflictsWith(a, b.doctorId, inflight[s].patient.id, b.startTime, b.endTime))
     IN IF conflictingAppointment # <<>>
        THEN Respond(s, 409)
        ELSE /\ inflight' = [inflight EXCEPT ![s].pc = "appointment.create"]
             /\ UNCHANGED response
  /\ UNCHANGED <<userRole, doctors, patients, appointments, prescriptions, chain,
                 anonymous, txLog, verification, page, clock>>

\* db.appointment.create and the 200 response
CreateAppointment(s) ==
  /\ inflight[s].pc = "appointment.create"
  /\ Len(appointments) < MaxAppointments
  /\ LET b == inflight[s].req.body IN
     appointments' = Append(appointments,
       [id |-> NewAppointmentId(appointments), doctorId |-> b.doctorId,
        patientId |-> inflight[s].patient.id, startTime |-> b.startTime,
        endTime |-> b.endTime, status |-> "PENDING"])
  /\ Respond(s, 200)
  /\ UNCHANGED <<userRole, doctors, patients, prescriptions, chain, anonymous,
                 txLog, verification, page, clock>>

(***************************************************************************)
(* Medical contract (read side): fetchAllPrescriptionsFromBlockchain and   *)
(* fetchPrescriptionFromBlockchain                                         *)
(***************************************************************************)
\* Number(issueDate) * 1000: seconds on chain, milliseconds in a response.
MsOfSeconds(sec) == sec * 1000

\* The row a handler returns for the on-chain prescription c.
ChainRow(c) ==
  [id |-> ToString(c.id), issueDate |-> MsOfSeconds(c.issueDate),
   doctorRef |-> c.doctorAddress, patientRef |-> c.patientAddress,
   notes |-> "", blockchainOnly |-> TRUE]

\* The row a handler returns for the database prescription p.
DbRow(p) ==
  [id |-> p.id, issueDate |-> p.issueDate, doctorRef |-> p.doctorId,
   patientRef |-> p.patientId, notes |-> p.notes, blockchainOnly |-> FALSE]

\* userAddress = Absent: the call passed no address.  chainUp = FALSE: the
\* provider cannot be reached and the helper returns [].
fetchAllPrescriptionsFromBlockchain(ch, chainUp, userAddress, isDoctor) ==
  IF ~chainUp THEN <<>>
  ELSE
    LET kept == SelectSeq(ch, LAMBDA c :
                  IF userAddress # Absent
                  THEN /\ (c.doctorAddress = userAddress \/ c.patientAddress = userAddress)
                       /\ (isDoctor => c.doctorAddress = userAddress)
                       /\ (~isDoctor => c.patientAddress = userAddress)
                  ELSE TRUE)
    IN [i \in DOMAIN kept |-> ChainRow(kept[i])]

\* parseInt(prescriptionId): the chain id a string denotes, 0 for NaN.
ParseInt(str) ==
  IF \E n \in 1..(MaxChainPrescriptions + 1) : ToString(n) = str
  THEN CHOOSE n \in 1..(MaxChainPrescriptions + 1) : ToString(n) = str
  ELSE 0

\* The lookup without its hasAccess check.
fetchPrescriptionFromBlockchain_NoAccessCheck(ch, chainUp, prescriptionId, userAddress) ==
  IF ~chainUp \/ ParseInt(prescriptionId) = 0 \/ ParseInt(prescriptionId) \notin DOMAIN ch
  THEN <<>>
  ELSE <<ChainRow(ch[ParseInt(prescriptionId)])>>

\* The prescription as a one-row list, or <<>> for null.
fetchPrescriptionFromBlockchain(ch, chainUp, prescriptionId, userAddress) ==
  LET blockchainId == ParseInt(prescriptionId) IN
  IF ~chainUp \/ blockchainId = 0 \/ blockchainId \notin DOMAIN ch THEN <<>>
  ELSE
    LET c == ch[blockchainId] IN
    IF userAddress # Absent
       /\ ~(c.doctorAddress = userAddress \/ c.patientAddress = userAddress)
    THEN <<>>
    ELSE <<ChainRow(c)>>

(***************************************************************************)
(* GET /api/prescriptions                                                  *)
(***************************************************************************)
\* combined = new Map(); database rows first, then the chain rows whose id is
\* not yet a key.
\* A merge that keeps every row.
Combine_KeepAll(combined, rows) == combined \o rows

RECURSIVE Combine(_, _)
Combine(combined, rows) ==
  IF rows = <<>> THEN combined
  ELSE Combine(IF \E i \in DOMAIN combined : combined[i].id = Head(rows).id
               THEN combined ELSE Append(combined, Head(rows)),
               Tail(rows))

\* req = [user, role, chainUp]
PrescriptionsGET(docs, pats, rxs, ch, req) ==
  IF req.user = NoUser
  THEN GetResult(401, <<>>, <<>>)
  ELSE IF req.role = "doctor"
  THEN
    LET doctor == DoctorsOfUser(docs, req.user) IN
    IF doctor = <<>>
    THEN GetResult(404, <<"doctor.findFirst">>, <<>>)
    ELSE
      LET mine == SelectSeq(rxs, LAMBDA p : p.doctorId = doctor[1].id)
          dbPrescriptions == SortByIssueDateDesc([i \in DOMAIN mine |-> DbRow(mine[i])])
          blockchainPrescriptions ==
            fetchAllPrescriptionsFromBlockchain(ch, req.chainUp, doctor[1].blockId, TRUE)
          combined == Combine(Combine(<<>>, dbPrescriptions), blockchainPrescriptions)
      IN GetResult(200,
           <<"doctor.findFirst", "prescription.findMany", "contract.prescriptions">>,
           SortByIssueDateDesc(combined))
  ELSE
    LET patient == PatientsOfUser(pats, req.user)
        mine == IF patient = <<>> THEN <<>>
                ELSE SelectSeq(rxs, LAMBDA p : p.patientId = patient[1].id)
        dbPrescriptions == SortByIssueDateDesc([i \in DOMAIN mine |-> DbRow(mine[i])])
        blockchainPrescriptions ==
          fetchAllPrescriptionsFromBlockchain(ch, req.chainUp, Absent, FALSE)
        combined == Combine(Combine(<<>>, dbPrescriptions), blockchainPrescriptions)
    IN GetResult(200,
         IF patient = <<>> THEN <<"patient.findFirst", "contract.prescriptions">>
         ELSE <<"patient.findFirst", "prescription.findMany", "contract.prescriptions">>,
         SortByIssueDateDesc(combined))

\* The callers of the prescription routes: the two doctors, a patient, a
\* user without any profile, and a request without a session.
PrescriptionCallers == {"u1", "u4", "u2", "u3", NoUser}

PrescriptionsGetRequests ==
  [user : PrescriptionCallers, role : {"doctor", "patient"}, chainUp : BOOLEAN]

GetPrescriptions(req) ==
  LET r == PrescriptionsGET(doctors, patients, prescriptions, chain, req) IN
  /\ response' = [op |-> "GET /api/prescriptions", status |-> r.status]
  /\ UNCHANGED <<userRole, doctors, patients, appointments, prescriptions, chain,
                 anonymous, txLog, verification, page, clock, inflight>>

(***************************************************************************)
(* POST /api/prescriptions                                                 *)
(***************************************************************************)
\* A schema that accepts every body.
ValidPrescriptionBody_AcceptAll(b) == TRUE

\* prescriptionCreateSchema.parse(json)
ValidPrescriptionBody(b) ==
  /\ b.patientId \notin {NotAString, ""}
  /\ b.medications = "valid"
  /\ b.validTill \in {Absent, "datetime"}

\* The relational constraints of the schema on one prescription row.
ForeignKeysHold(docs, pats, p) ==
  /\ DoctorsWithId(docs, p.doctorId) # <<>>
  /\ PatientsWithId(pats, p.patientId) # <<>>

\* The primary key: row i may take the id of updated only if no other row
\* has it.
PrimaryKeyHolds(rxs, i, updated) ==
  \A j \in DOMAIN rxs : j # i => rxs[j].id # updated.id

NewPrescriptionId(rxs) == "rx" \o ToString(Len(rxs) + 1)

RxResult(status, rxs, calls, body) ==
  [status |-> status, prescriptions |-> rxs, calls |-> calls, body |-> body]

\* req = [user, body = [wellformed, patientId, medications, validTill]]
PrescriptionsPOST(docs, pats, rxs, now, req) ==
  IF req.user = NoUser
  THEN RxResult(401, rxs, <<>>, <<>>)
  ELSE
    LET doctor == DoctorsOfUser(docs, req.user) IN
    IF doctor = <<>>
    THEN RxResult(403, rxs, <<"doctor.findFirst">>, <<>>)
    ELSE IF ~req.body.wellformed
    THEN RxResult(500, rxs, <<"doctor.findFirst">>, <<>>)
    ELSE IF ~ValidPrescriptionBody(req.body)
    THEN RxResult(422, rxs, <<"doctor.findFirst">>, <<>>)
    ELSE
      LET prescription ==
            [id |-> NewPrescriptionId(rxs), doctorId |-> doctor[1].id,
             patientId |-> req.body.patientId, issueDate |-> MsOfSeconds(now),
             notes |-> ""]
      IN
      IF ~ForeignKeysHold(docs, pats, prescription)
      THEN RxResult(500, rxs, <<"doctor.findFirst", "prescription.create">>, <<>>)
      ELSE RxResult(200, Append(rxs, prescription),
                    <<"doctor.findFirst", "prescription.create">>, <<prescription>>)

PrescriptionBodies ==
  [wellformed : {TRUE}, patientId : {"p1", "p2", "p9"}, medications : {"valid"},
   validTill : {Absent, "datetime"}]
  \cup
  { [wellformed |-> TRUE, patientId |-> "", medications |-> "valid", validTill |-> Absent],
    [wellformed |-> TRUE, patientId |-> "p1", medications |-> "invalid", validTill |-> Absent],
    [wellformed |-> TRUE, patientId |-> "p1", medications |-> "valid", validTill |-> "date"],
    [wellformed |-> FALSE, patientId |-> NotAString, medications |-> "invalid",
     validTill |-> Absent] }

PrescriptionsPostRequests == [user : PrescriptionCallers, body : PrescriptionBodies]

PostPrescriptions(req) ==
  LET r == PrescriptionsPOST(doctors, patients, prescriptions, clock, req) IN
  /\ Len(r.prescriptions) <= MaxPrescriptions
  /\ prescriptions' = r.prescriptions
  /\ response' = [op |-> "POST /api/prescriptions", status |-> r.status]
  /\ UNCHANGED <<userRole, doctors, patients, appointments, chain, anonymous, txLog,
                 verification, page, clock, inflight>>

(***************************************************************************)
(* GET /api/prescriptions/[id]                                             *)
(***************************************************************************)
\* req = [user, id, chainUp]
PrescriptionGET(roles, docs, pats, rxs, ch, req) ==
  IF req.user = NoUser
  THEN GetResult(401, <<>>, <<>>)
  ELSE
    LET isDoctor == roles[req.user] = "doctor"
        profile == IF isDoctor THEN DoctorsOfUser(docs, req.user)
                   ELSE PatientsOfUser(pats, req.user)
        userWalletAddress == IF profile = <<>> THEN Absent ELSE profile[1].blockId
        calls1 == <<"user.findUnique",
                    IF isDoctor THEN "doctor.findFirst" ELSE "patient.findFirst">>
    IN
    IF profile = <<>>
    THEN \* for a patient the chain is tried only if (userWalletAddress), which
         \* is undefined here
         GetResult(404, calls1, <<>>)
    ELSE
      LET prescription ==
            SelectSeq(rxs, LAMBDA p :
              /\ p.id = req.id
              /\ IF isDoctor THEN p.doctorId = profile[1].id
                 ELSE p.patientId = profile[1].id)
          calls2 == Append(calls1, "prescription.findFirst")
      IN
      IF prescription # <<>>
      THEN GetResult(200, calls2, <<DbRow(prescription[1])>>)
      ELSE
        LET onChain == fetchPrescriptionFromBlockchain(ch, req.chainUp, req.id,
                                                       userWalletAddress)
        IN IF onChain # <<>>
           THEN GetResult(200, Append(calls2, "contract.prescriptions"), onChain)
           ELSE GetResult(404, Append(calls2, "contract.prescriptions"), <<>>)

\* The ids of the rows the store and the chain can hold, and an id of neither.
DbIdInputs == {"rx" \o ToString(n) : n \in 1..MaxPrescriptions}
PrescriptionIdInputs ==
  DbIdInputs \cup {ToString(n) : n \in 1..MaxChainPrescriptions} \cup {"none"}

PrescriptionGetRequests ==
  [user : PrescriptionCallers, id : PrescriptionIdInputs, chainUp : BOOLEAN]

GetPrescription(req) ==
  LET r == PrescriptionGET(userRole, doctors, patients, prescriptions, chain, req) IN
  /\ response' = [op |-> "GET /api/prescriptions/[id]", status |-> r.status]
  /\ UNCHANGED <<userRole, doctors, patients, appointments, prescriptions, chain,
                 anonymous, txLog, verification, page, clock, inflight>>

(***************************************************************************)
(* PUT /api/prescriptions/[id]                                             *)
(***************************************************************************)
\* db.prescription.update({ data: json }): every field the body names is
\* replaced.
ApplyUpdate(p, data) ==
  [p EXCEPT !.id = IF data.id = Absent THEN @ ELSE data.id,
            !.notes = IF data.notes = Absent THEN @ ELSE data.notes,
            !.doctorId = IF data.doctorId = Absent THEN @ ELSE data.doctorId,
            !.patientId = IF data.patientId = Absent THEN @ ELSE data.patientId]

\* An ownership query that leaves the doctor out.
OwnedPrescriptions_AnyDoctor(rxs, id, doctorId) == {i \in DOMAIN rxs : rxs[i].id = id}

\* db.prescription.findFirst({ where: { id: prescriptionId, doctorId: doctor.id } })
OwnedPrescriptions(rxs, id, doctorId) ==
  {i \in DOMAIN rxs : rxs[i].id = id /\ rxs[i].doctorId = doctorId}

\* req = [user, id, body = [wellformed, known, id, notes, doctorId, patientId]]
PrescriptionPUT(docs, pats, rxs, req) ==
  IF req.user = NoUser
  THEN RxResult(401, rxs, <<>>, <<>>)
  ELSE
    LET doctor == DoctorsOfUser(docs, req.user) IN
    IF doctor = <<>>
    THEN RxResult(403, rxs, <<"doctor.findFirst">>, <<>>)
    ELSE IF ~req.body.wellformed
    THEN RxResult(500, rxs, <<"doctor.findFirst">>, <<>>)
    ELSE
      LET owned == OwnedPrescriptions(rxs, req.id, doctor[1].id)
          calls2 == <<"doctor.findFirst", "prescription.findFirst">>
      IN
      IF owned = {}
      THEN RxResult(404, rxs, calls2, <<>>)
      ELSE
        LET i == CHOOSE j \in owned : \A k \in owned : j <= k
            updated == ApplyUpdate(rxs[i], req.body)
        IN
        IF \/ ~req.body.known
           \/ ~ForeignKeysHold(docs, pats, updated)
           \/ ~PrimaryKeyHolds(rxs, i, updated)
        THEN \* the ORM rejects an unknown field, a dangling reference or a
             \* duplicate id
             RxResult(500, rxs, Append(calls2, "prescription.update"), <<>>)
        ELSE RxResult(200, [rxs EXCEPT ![i] = updated],
                      Append(calls2, "prescription.update"), <<updated>>)

\* One body per field replaced (the id among them: a body may name any
\* column), a body with an unknown field and a body that is not JSON.
PrescriptionPutBodies ==
  { [wellformed |-> TRUE, known |-> TRUE, id |-> ToString(1), notes |-> Absent,
     doctorId |-> Absent, patientId |-> Absent],
    [wellformed |-> TRUE, known |-> TRUE, id |-> Absent, notes |-> "n1", doctorId |-> Absent,
     patientId |-> Absent],
    [wellformed |-> TRUE, known |-> TRUE, id |-> Absent, notes |-> Absent, doctorId |-> "d2",
     patientId |-> Absent],
    [wellformed |-> TRUE, known |-> TRUE, id |-> Absent, notes |-> Absent, doctorId |-> Absent,
     patientId |-> "p2"],
    [wellformed |-> TRUE, known |-> TRUE, id |-> Absent, notes |-> Absent, doctorId |-> Absent,
     patientId |-> "p9"],
    [wellformed |-> TRUE, known |-> FALSE, id |-> Absent, notes |-> Absent, doctorId |-> Absent,
     patientId |-> Absent],
    [wellformed |-> FALSE, known |-> FALSE, id |-> Absent, notes |-> Absent, doctorId |-> Absent,
     patientId |-> Absent] }

PrescriptionPutRequests ==
  [user : PrescriptionCallers, id : PrescriptionIdInputs, body : PrescriptionPutBodies]

PutPrescription(req) ==
  LET r == PrescriptionPUT(doctors, patients, prescriptions, req) IN
  /\ prescriptions' = r.prescriptions
  /\ response' = [op |-> "PUT /api/prescriptions/[id]", status |-> r.status]
  /\ UNCHANGED <<userRole, doctors, patients, appointments, chain, anonymous, txLog,
                 verification, page, clock, inflight>>

(***************************************************************************)
(* GET /api/patients                                                       *)
(***************************************************************************)
\* The handler with the doctor lookup made before the session check.
PatientsGET_LookupFirst(docs, pats, req) ==
  IF DoctorsOfUser(docs, req.user) = <<>>
  THEN GetResult(403, <<"doctor.findFirst">>, <<>>)
  ELSE IF req.user = NoUser
  THEN GetResult(401, <<"doctor.findFirst">>, <<>>)
  ELSE IF req.address # Absent
  THEN GetResult(200, <<"doctor.findFirst", "patient.findMany">>,
                 SelectSeq(pats, LAMBDA p : p.blockId = req.address))
  ELSE GetResult(200, <<"doctor.findFirst", "patient.findMany">>, pats)

\* req = [user, address]
PatientsGET(docs, pats, req) ==
  IF req.user = NoUser
  THEN GetResult(401, <<>>, <<>>)
  ELSE IF DoctorsOfUser(docs, req.user) = <<>>
  THEN GetResult(403, <<"doctor.findFirst">>, <<>>)
  ELSE IF req.address # Absent
  THEN GetResult(200, <<"doctor.findFirst", "patient.findMany">>,
                 SelectSeq(pats, LAMBDA p : p.blockId = req.address))
  ELSE GetResult(200, <<"doctor.findFirst", "patient.findMany">>, pats)

\* The wallets of the two patients on record and the wallet of a user
\* without a patient record.
PatientAddressInputs == {"0xa2", "0xa5", "0xa3"}

PatientsGetRequests == [user : PrescriptionCallers, address : PatientAddressInputs \cup {Absent}]

GetPatients(req) ==
  LET r == PatientsGET(doctors, patients, req) IN
  /\ response' = [op |-> "GET /api/patients", status |-> r.status]
  /\ UNCHANGED <<userRole, doctors, patients, appointments, prescriptions, chain,
                 anonymous, txLog, verification, page, clock, inflight>>

(***************************************************************************)
(* Medical contract (write side) and CreatePrescriptionPage.handleSubmit   *)
(***************************************************************************)
\* issuePrescription(patientAddress, medications, diagnosis) sent by sender
\* and mined at block time now.
IssuePrescriptionOnChain(ch, sender, patientAddress, now) ==
  Append(ch, [id |-> Len(ch) + 1, doctorAddress |-> sender,
              patientAddress |-> patientAddress, issueDate |-> now])

SubmitResult(toast, ch, rxs, txConfirmed, dbSaved, calls, sent) ==
  [toast |-> toast, chain |-> ch, prescriptions |-> rxs, txConfirmed |-> txConfirmed,
   dbSaved |-> dbSaved, calls |-> calls, sent |-> sent]

\* A catch block that takes the prescription off the chain again.
SubmitFailed_Compensating(ch1, rxs, calls, sent) ==
  SubmitResult("Error", SubSeq(ch1, 1, Len(ch1) - 1), rxs, TRUE, FALSE,
               Append(calls, "contract.revokePrescription"), sent)

\* The catch block after the transaction was confirmed: an error toast, and
\* nothing else.
SubmitFailed(ch1, rxs, calls, sent) ==
  SubmitResult("Error", ch1, rxs, TRUE, FALSE, calls, sent)

\* in = [user, wallet, patientAddress, filled, validTill, txOk]
\* selectedPatientId is always "": fetchPatients leaves the patient list empty.
CreatePrescriptionSubmit(docs, pats, rxs, ch, now, in) ==
  IF in.patientAddress = "" \/ ~in.filled
  THEN SubmitResult("Error", ch, rxs, FALSE, FALSE, <<>>, <<>>)
  ELSE IF ~in.txOk
  THEN \* the wallet rejects the transaction or the contract reverts
       SubmitResult("Error", ch, rxs, FALSE, FALSE, <<"contract.issuePrescription">>, <<>>)
  ELSE
    LET ch1 == IssuePrescriptionOnChain(ch, in.wallet, in.patientAddress, now)
        calls1 == <<"contract.issuePrescription", "tx.wait", "GET /api/patients">>
        patientResponse == PatientsGET(docs, pats,
                             [user |-> in.user, address |-> in.patientAddress])
        sent1 == <<[op |-> "GET /api/patients", status |-> patientResponse.status]>>
    IN
    IF patientResponse.status # 200
    THEN \* axios rejects on a status outside 2xx; the catch block only toasts
         SubmitFailed(ch1, rxs, calls1, sent1)
    ELSE IF patientResponse.body = <<>>
    THEN SubmitResult("Success!", ch1, rxs, TRUE, FALSE, calls1, sent1)
    ELSE
      LET prescriptionResponse ==
            PrescriptionsPOST(docs, pats, rxs, now,
              [user |-> in.user,
               body |-> [wellformed |-> TRUE,
                         patientId |-> patientResponse.body[1].id,
                         medications |-> "valid",
                         validTill |-> IF in.validTill = "" THEN "datetime"
                                       ELSE in.validTill]])
          calls2 == Append(calls1, "POST /api/prescriptions")
          sent2 == Append(sent1, [op |-> "POST /api/prescriptions",
                                  status |-> prescriptionResponse.status])
      IN
      IF prescriptionResponse.status # 200
      THEN SubmitFailed(ch1, rxs, calls2, sent2)
      ELSE SubmitResult("Success!", ch1, prescriptionResponse.prescriptions,
                        TRUE, TRUE, calls2, sent2)

\* The signed-in user and the connected wallet: each doctor with their own
\* wallet, a patient, and a doctor's wallet whose session has expired.
SubmitIdentities ==
  { <<"u1", "0xa1">>, <<"u4", "0xa4">>, <<"u2", "0xa2">>, <<NoUser, "0xa1">> }

\* validTill is the value of an <input type="date">: "" or a date without
\* time.  Complete forms whose transaction is confirmed, and one form per way
\* of stopping before that.
SubmitInputs ==
  { [user |-> who[1], wallet |-> who[2], patientAddress |-> addr, filled |-> TRUE,
     validTill |-> vt, txOk |-> TRUE] :
    who \in SubmitIdentities, addr \in PatientAddressInputs, vt \in {"", "date"} }
  \cup
  { [user |-> "u1", wallet |-> "0xa1", patientAddress |-> "", filled |-> TRUE,
     validTill |-> "", txOk |-> TRUE],
    [user |-> "u1", wallet |-> "0xa1", patientAddress |-> "0xa2", filled |-> FALSE,
     validTill |-> "", txOk |-> TRUE],
    [user |-> "u1", wallet |-> "0xa1", patientAddress |-> "0xa2", filled |-> TRUE,
     validTill |-> "", txOk |-> FALSE] }

SubmitPrescription(in) ==
  LET r == CreatePrescriptionSubmit(doctors, patients, prescriptions, chain, clock, in) IN
  /\ Len(r.chain) <= MaxChainPrescriptions
  /\ Len(r.prescriptions) <= MaxPrescriptions
  /\ chain' = r.chain
  /\ prescriptions' = r.prescriptions
  /\ page' = [toast |-> r.toast, txConfirmed |-> r.txConfirmed, dbSaved |-> r.dbSaved]
  /\ response' = IF r.sent = <<>> THEN response ELSE r.sent[Len(r.sent)]
  /\ UNCHANGED <<userRole, doctors, patients, appointments, anonymous, txLog,
                 verification, clock, inflight>>

\* Time passes.
Tick ==
  /\ clock < MaxClock
  /\ clock' = clock + 1
  /\ UNCHANGED <<userRole, doctors, patients, appointments, prescriptions, chain,
                 anonymous, txLog, verification, page, response, inflight>>

(***************************************************************************)
(* lib/zkProofs.ts                                                         *)
(***************************************************************************)
\* ethers.keccak256, taken to be injective: the digest of x is the term
\* <<"keccak256", x>>.
keccak256(x) == <<"keccak256", x>>

\* A text that leaves the diagnosis out.
DataString_NoDiagnosis(data, now) ==
  <<"medications", data.medications, "doctorId", data.doctorId, "timestamp", now>>

\* JSON.stringify of the object literal, then ethers.toUtf8Bytes: the text
\* lists the four properties in this order.
DataString(data, now) ==
  <<"medications", data.medications, "diagnosis", data.diagnosis,
    "doctorId", data.doctorId, "timestamp", now>>

\* ethers.solidityPacked(['bytes32', 'bytes32'], [x, y]): the 64 bytes x || y.
solidityPacked(x, y) == <<"packed", x, y>>

\* now = Math.floor(Date.now() / 1000) at the time of the call.
generateCommitment(data, now) ==
  LET prescriptionHash == keccak256(DataString(data, now))
  IN keccak256(solidityPacked(prescriptionHash, keccak256(data.secretKey)))

U32Words == 8

\* The i-th 32-bit word of the 256-bit value hex, i = 1..8.
hexToU32Array(hex) == [i \in 1..U32Words |-> <<"u32", i, hex>>]

parseCommitmentForContract(commitment) == hexToU32Array(commitment)

\* A proof whose first component is the witness itself.
generateZKProof_LeakWitness(data, now) ==
  [proof |-> [a |-> <<data.secretKey, "0x5678">>,
              b |-> << <<"0xabcd", "0xef01">>, <<"0x2345", "0x6789">> >>,
              c |-> <<"0x9abc", "0xdef0">>],
   inputs |-> <<generateCommitment(data, now)>>]

\* A proof whose last component is derived from the secret key.
generateZKProof_KeyedProof(data, now) ==
  [proof |-> [a |-> <<"0x1234", "0x5678">>,
              b |-> << <<"0xabcd", "0xef01">>, <<"0x2345", "0x6789">> >>,
              c |-> <<"0x9abc", keccak256(data.secretKey)>>],
   inputs |-> <<generateCommitment(data, now)>>]

generateZKProof(data, now) ==
  [proof |-> [a |-> <<"0x1234", "0x5678">>,
              b |-> << <<"0xabcd", "0xef01">>, <<"0x2345", "0x6789">> >>,
              c |-> <<"0x9abc", "0xdef0">>],
   inputs |-> <<generateCommitment(data, now)>>]

(***************************************************************************)
(* AnonymousPrescriptionPage.handleSubmit                                  *)
(***************************************************************************)
\* The arguments of medicalContract.issueAnonymousPrescription.
AnonymousCallArgs(medications, diagnosis, zkProof) ==
  [medications |-> medications,
   diagnosis |-> diagnosis,
   commitment |-> parseCommitmentForContract(zkProof.inputs[1]),
   a |-> zkProof.proof.a,
   b |-> zkProof.proof.b,
   c |-> zkProof.proof.c,
   input |-> <<zkProof.inputs[1]>>]

\* The record the contract keeps for an anonymous prescription mined at
\* block time now.
StoreAnonymous(anon, args, now) ==
  Append(anon, [commitment |-> args.commitment, timestamp |-> now])

Incomplete(med) == med.name = "" \/ med.dosage = "" \/ med.duration = ""

AnonResult(toast, anon, log) == [toast |-> toast, anonymous |-> anon, txLog |-> log]

\* in = [wallet, medications, diagnosis, secretKey, txOk]
AnonymousSubmit(anon, log, now, in) ==
  IF in.diagnosis = "" \/ in.secretKey = ""
     \/ (\E i \in DOMAIN in.medications : Incomplete(in.medications[i]))
  THEN AnonResult("Error", anon, log)
  ELSE
    LET prescriptionData == [medications |-> in.medications, diagnosis |-> in.diagnosis,
                             doctorId |-> in.wallet, secretKey |-> in.secretKey]
        zkProof == generateZKProof(prescriptionData, now)
        args == AnonymousCallArgs(in.medications, in.diagnosis, zkProof)
    IN
    IF ~in.txOk
    THEN AnonResult("Error", anon, log)
    ELSE AnonResult("Success", StoreAnonymous(anon, args, now),
                    Append(log, [data |-> prescriptionData, now |-> now,
                                 sender |-> in.wallet, args |-> args]))

Medication(name, dosage) ==
  [name |-> name, dosage |-> dosage, duration |-> "3 days", additionalInstructions |-> ""]

MedicationInputs == { <<Medication("Dolo", "500mg")>>, <<Medication("Dolo", "650mg")>> }
DiagnosisInputs == {"fever", "asthma"}
SecretKeyInputs == {"0xk1", "0xk2"}

\* Complete forms, and one form per check of the page that fails.
AnonymousSubmitInputs ==
  [wallet : {"0xa1", "0xa4"}, medications : MedicationInputs,
   diagnosis : DiagnosisInputs, secretKey : SecretKeyInputs, txOk : BOOLEAN]
  \cup
  { [wallet |-> "0xa1", medications |-> <<Medication("Dolo", "500mg")>>,
     diagnosis |-> "", secretKey |-> "0xk1", txOk |-> TRUE],
    [wallet |-> "0xa1", medications |-> <<Medication("Dolo", "500mg")>>,
     diagnosis |-> "fever", secretKey |-> "", txOk |-> TRUE],
    [wallet |-> "0xa1", medications |-> <<Medication("", "500mg")>>,
     diagnosis |-> "fever", secretKey |-> "0xk1", txOk |-> TRUE] }

SubmitAnonymous(in) ==
  LET r == AnonymousSubmit(anonymous, txLog, clock, in) IN
  /\ Len(r.anonymous) <= MaxAnonymous
  /\ anonymous' = r.anonymous
  /\ txLog' = r.txLog
  /\ UNCHANGED <<userRole, doctors, patients, appointments, prescriptions, chain,
                 verification, page, clock, response, inflight>>

(***************************************************************************)
(* VerifyPrescriptionPage.handleVerification                               *)
(***************************************************************************)
\* The anonymous prescription a decimal id denotes, 0 if it denotes none.
AnonymousIdOf(str) ==
  IF \E n \in 1..(MaxAnonymous + 1) : ToString(n) = str
  THEN CHOOSE n \in 1..(MaxAnonymous + 1) : ToString(n) = str
  ELSE 0

\* zkVerifierContract.verifyAnonymousPrescription(prescriptionId)
verifyAnonymousPrescription(anon, prescriptionId) ==
  AnonymousIdOf(prescriptionId) \in DOMAIN anon

\* in = [prescriptionId, secretKey, rpcOk]; the result is verificationResult,
\* unchanged when the form is incomplete.
Verification(anon, old, in) ==
  IF in.prescriptionId = "" \/ in.secretKey = ""
  THEN old
  ELSE IF ~in.rpcOk
  THEN [prescriptionId |-> in.prescriptionId, secretKey |-> in.secretKey,
        shown |-> TRUE, isValid |-> FALSE, commitment |-> <<>>]
  ELSE IF ~verifyAnonymousPrescription(anon, in.prescriptionId)
  THEN [prescriptionId |-> in.prescriptionId, secretKey |-> in.secretKey,
        shown |-> TRUE, isValid |-> FALSE, commitment |-> <<>>]
  ELSE [prescriptionId |-> in.prescriptionId, secretKey |-> in.secretKey,
        shown |-> TRUE, isValid |-> TRUE,
        commitment |-> anon[AnonymousIdOf(in.prescriptionId)].commitment]

VerificationInputs ==
  [prescriptionId : {"1", "2", "7"}, secretKey : SecretKeyInputs, rpcOk : BOOLEAN]
  \cup
  { [prescriptionId |-> "", secretKey |-> "0xk1", rpcOk |-> TRUE],
    [prescriptionId |-> "1", secretKey |-> "", rpcOk |-> TRUE] }

handleVerification(in) ==
  /\ verification' = Verification(anonymous, verification, in)
  /\ UNCHANGED <<userRole, doctors, patients, appointments, prescriptions, chain,
                 anonymous, txLog, page, clock, response, inflight>>

(***************************************************************************)
(* Initial state                                                           *)
(***************************************************************************)
Init ==
  /\ userRole = [u \in Users |->
                   CASE u \in {"u1", "u4"} -> "doctor"
                     [] u \in {"u2", "u5"} -> "patient"
                     [] OTHER -> "unset"]
  /\ doctors = << [id |-> "d1", userId |-> "u1", blockId |-> "0xa1"],
                  [id |-> "d2", userId |-> "u4", blockId |-> "0xa4"] >>
  /\ patients = << [id |-> "p1", userId |-> "u2", blockId |-> "0xa2"],
                   [id |-> "p2", userId |-> "u5", blockId |-> "0xa5"] >>
  /\ appointments = <<>>
  /\ prescriptions = <<>>
  /\ chain = <<>>
  /\ anonymous = <<>>
  /\ txLog = <<>>
  /\ verification = [prescriptionId |-> "", secretKey |-> "", shown |-> FALSE,
                     isValid |-> FALSE, commitment |-> <<>>]
  /\ page = [toast |-> "none", txConfirmed |-> FALSE, dbSaved |-> FALSE]
  /\ clock = 0
  /\ response = [op |-> "none", status |-> 0]
  /\ inflight = [s \in Slots |-> Idle]

NextAppt ==
  \/ \E req \in AppointmentPostRequests : PostAppointments(req)
  \/ \E req \in AppointmentGetRequests : GetAppointments(req)
  \/ \E i \in 1..MaxAppointments, st \in AppointmentStatus : SetAppointmentStatus(i, st)

SpecAppt == Init /\ [][NextAppt]_vars

NextRx ==
  \/ \E req \in PrescriptionsGetRequests : GetPrescriptions(req)
  \/ \E req \in PrescriptionsPostRequests : PostPrescriptions(req)
  \/ \E req \in PrescriptionGetRequests : GetPrescription(req)
  \/ \E req \in PrescriptionPutRequests : PutPrescription(req)
  \/ \E req \in PatientsGetRequests : GetPatients(req)
  \/ \E in \in SubmitInputs : SubmitPrescription(in)
  \/ Tick

SpecRx == Init /\ [][NextRx]_vars

NextZK ==
  \/ \E in \in AnonymousSubmitInputs : SubmitAnonymous(in)
  \/ \E in \in VerificationInputs : handleVerification(in)
  \/ Tick

SpecZK == Init /\ [][NextZK]_vars

\* Several POST /api/appointments requests in progress at once, each
\* advancing by one database call.
NextConcurrent ==
  \/ \E s \in Slots, req \in AppointmentPostRequests : BeginPost(s, req)
  \/ \E s \in Slots : CreatePatient(s)
  \/ \E s \in Slots : UpdateUser(s)
  \/ \E s \in Slots : FindDoctor(s)
  \/ \E s \in Slots : FindConflict(s)
  \/ \E s \in Slots : CreateAppointment(s)

SpecConcurrent == Init /\ [][NextConcurrent]_vars

\* The REST route handlers alone, on a store of at most MaxRows appointments
\* and prescriptions.
NextRest ==
  \/ \E req \in AppointmentPostRequests :
       /\ PostAppointments(req)
       /\ Len(appointments') + Len(prescriptions) <= MaxRows
  \/ \E req \in AppointmentGetRequests : GetAppointments(req)
  \/ \E req \in PrescriptionsGetRequests : GetPrescriptions(req)
  \/ \E req \in PrescriptionsPostRequests :
       /\ PostPrescriptions(req)
       /\ Len(appointments) + Len(prescriptions') <= MaxRows
  \/ \E req \in PrescriptionGetRequests : GetPrescription(req)
  \/ \E req \in PrescriptionPutRequests : PutPrescription(req)
  \/ \E req \in PatientsGetRequests : GetPatients(req)

SpecRest == Init /\ [][NextRest]_vars

(***************************************************************************)
(* Properties of POST /api/appointments                                    *)
(***************************************************************************)
\* A request of an authenticated caller whose body passes the schema.
BookingRequests ==
  {req \in AppointmentPostRequests :
     req.user # NoUser /\ req.body.wellformed /\ ValidAppointmentBody(req.body)}

Booked(req) == AppointmentsPOST(userRole, doctors, patients, appointments, req)

\* The stored appointment a is PENDING or CONFIRMED and its range and the
\* range [startTime, endTime] overlap: each starts no later than the other ends.
ActiveOverlap(a, startTime, endTime) ==
  /\ a.status \in {"PENDING", "CONFIRMED"}
  /\ a.startTime <= endTime
  /\ startTime <= a.endTime

\* The stored appointments that stand in the way of req: those of the same
\* doctor, and those of the requesting patient.
Blocking(req) ==
  {i \in DOMAIN appointments :
     /\ ActiveOverlap(appointments[i], req.body.startTime, req.body.endTime)
     /\ \/ appointments[i].doctorId = req.body.doctorId
        \/ \E p \in Range(patients) :
             p.userId = req.user /\ p.id = appointments[i].patientId}

DoctorExists(id) == \E d \in Range(doctors) : d.id = id

\* C1, as claimed: POST /api/appointments returns 409 and creates no
\* appointment whenever a stored PENDING or CONFIRMED appointment of the same
\* doctor or of the requesting patient overlaps the requested range, and a
\* CANCELED appointment never causes a 409.
C1_ConflictAlways409 ==
  \A req \in BookingRequests :
    /\ Blocking(req) # {} =>
         Booked(req).status = 409 /\ Booked(req).appointments = appointments
    /\ Booked(req).status = 409 => Blocking(req) # {}

\* C1, amended: with such an overlapping appointment stored, no appointment
\* is created, and the response is 409 when the body's doctorId names an
\* existing doctor and 404 when it does not; a 409 is answered only when a
\* PENDING or CONFIRMED appointment overlaps, never because of CANCELED ones.
C1_ConflictAnswered409 ==
  \A req \in BookingRequests :
    /\ Blocking(req) # {} =>
         /\ Booked(req).appointments = appointments
         /\ DoctorExists(req.body.doctorId) => Booked(req).status = 409
         /\ ~DoctorExists(req.body.doctorId) => Booked(req).status = 404
    /\ Booked(req).status = 409 => Blocking(req) # {}

\* A 409 has been answered while a CANCELED and a PENDING or CONFIRMED
\* appointment are stored.
C1_Witness ==
  /\ response = [op |-> "POST /api/appointments", status |-> 409]
  /\ \E a \in Range(appointments) : a.status = "CANCELED"
  /\ \E a \in Range(appointments) : a.status \in {"PENDING", "CONFIRMED"}

\* C9: every stored appointment references exactly one existing doctor and
\* exactly one existing patient; an appointment is stored only by a request
\* answered 200, with the body's doctorId and the patient profile of the
\* caller; a request naming no existing doctor is answered 404 and stores
\* nothing.
C9_AppointmentReferences ==
  /\ \A a \in Range(appointments) :
       /\ Cardinality({i \in DOMAIN doctors : doctors[i].id = a.doctorId}) = 1
       /\ Cardinality({i \in DOMAIN patients : patients[i].id = a.patientId}) = 1
  /\ \A req \in BookingRequests :
       LET r == Booked(req) IN
       /\ r.status # 200 => r.appointments = appointments
       /\ r.status = 200 =>
            /\ Len(r.appointments) = Len(appointments) + 1
            /\ SubSeq(r.appointments, 1, Len(appointments)) = appointments
            /\ LET a == r.appointments[Len(r.appointments)] IN
               /\ a.doctorId = req.body.doctorId
               /\ DoctorExists(a.doctorId)
               /\ \E i \in DOMAIN r.patients :
                    /\ r.patients[i].id = a.patientId
                    /\ r.patients[i].userId = req.user
       /\ ~DoctorExists(req.body.doctorId) =>
            r.status = 404 /\ r.appointments = appointments

\* An appointment was stored for a caller whose patient record the request
\* created, and the last POST was answered 404.
C9_Witness ==
  /\ response = [op |-> "POST /api/appointments", status |-> 404]
  /\ \E a \in Range(appointments), p \in Range(patients) :
       p.id = a.patientId /\ p.userId = "u1"

(***************************************************************************)
(* Properties of all REST handlers                                         *)
(***************************************************************************)
Listed(req) == AppointmentsGET(userRole, doctors, patients, appointments, req)
RxListed(req) == PrescriptionsGET(doctors, patients, prescriptions, chain, req)
RxCreated(req) == PrescriptionsPOST(doctors, patients, prescriptions, clock, req)
RxFetched(req) == PrescriptionGET(userRole, doctors, patients, prescriptions, chain, req)
RxUpdated(req) == PrescriptionPUT(doctors, patients, prescriptions, req)
PatientsListed(req) == PatientsGET(doctors, patients, req)

\* The status of every response the handlers give in the current store.
AnsweredStatuses ==
  {Booked(req).status : req \in AppointmentPostRequests}
  \cup {Listed(req).status : req \in AppointmentGetRequests}
  \cup {RxListed(req).status : req \in PrescriptionsGetRequests}
  \cup {RxCreated(req).status : req \in PrescriptionsPostRequests}
  \cup {RxFetched(req).status : req \in PrescriptionGetRequests}
  \cup {RxUpdated(req).status : req \in PrescriptionPutRequests}
  \cup {PatientsListed(req).status : req \in PatientsGetRequests}

\* A request whose JSON body parses and fails the schema, from a caller who
\* passes the checks made before the body is read: a doctorId that is not a
\* string, or a startTime or endTime that is not an ISO datetime.
InvalidBookings ==
  {req \in AppointmentPostRequests :
     /\ req.user # NoUser
     /\ req.body.wellformed
     /\ \/ req.body.doctorId = NotAString
        \/ req.body.startTime = NotADatetime
        \/ req.body.endTime = NotADatetime}
\* An empty patientId, a medication without its fields, or a validTill that
\* is a date without time.
InvalidPrescriptions ==
  {req \in PrescriptionsPostRequests :
     /\ req.user # NoUser
     /\ \E d \in Range(doctors) : d.userId = req.user
     /\ req.body.wellformed
     /\ \/ req.body.patientId = ""
        \/ req.body.medications = "invalid"
        \/ req.body.validTill = "date"}

\* C6, as claimed: every response has status 200, 401, 403, 404, 409, 422 or
\* 500, and a body that fails schema validation is answered with 422.
C6_ConventionalStatuses ==
  /\ AnsweredStatuses \subseteq {200, 401, 403, 404, 409, 422, 500}
  /\ response.status \in {0, 200, 401, 403, 404, 409, 422, 500}
  /\ \A req \in InvalidBookings : Booked(req).status = 422
  /\ \A req \in InvalidPrescriptions : RxCreated(req).status = 422

\* C6, amended: every response has status 200, 400, 401, 403, 404, 409, 422
\* or 500; a body that fails schema validation is answered with 422 by
\* POST /api/prescriptions and with 400 by POST /api/appointments.
C6_StatusCodes ==
  /\ AnsweredStatuses \subseteq {200, 400, 401, 403, 404, 409, 422, 500}
  /\ response.status \in {0, 200, 400, 401, 403, 404, 409, 422, 500}
  /\ \A req \in InvalidBookings : Booked(req).status = 400
  /\ \A req \in InvalidPrescriptions : RxCreated(req).status = 422

\* POST /api/prescriptions has answered 422.
C6_Witness == response = [op |-> "POST /api/prescriptions", status |-> 422]

\* C7: a request without an authenticated user is answered 401 by every
\* handler, which makes no ORM call and no contract call and leaves the
\* database as it was.
C7_SessionFirst ==
  /\ \A req \in AppointmentPostRequests : req.user = NoUser =>
       LET r == Booked(req) IN
       /\ r.status = 401 /\ r.calls = <<>>
       /\ r.userRole = userRole /\ r.patients = patients
       /\ r.appointments = appointments
  /\ \A req \in AppointmentGetRequests : req.user = NoUser =>
       Listed(req).status = 401 /\ Listed(req).calls = <<>>
  /\ \A req \in PrescriptionsGetRequests : req.user = NoUser =>
       RxListed(req).status = 401 /\ RxListed(req).calls = <<>>
  /\ \A req \in PrescriptionsPostRequests : req.user = NoUser =>
       LET r == RxCreated(req) IN
       r.status = 401 /\ r.calls = <<>> /\ r.prescriptions = prescriptions
  /\ \A req \in PrescriptionGetRequests : req.user = NoUser =>
       RxFetched(req).status = 401 /\ RxFetched(req).calls = <<>>
  /\ \A req \in PrescriptionPutRequests : req.user = NoUser =>
       LET r == RxUpdated(req) IN
       r.status = 401 /\ r.calls = <<>> /\ r.prescriptions = prescriptions
  /\ \A req \in PatientsGetRequests : req.user = NoUser =>
       PatientsListed(req).status = 401 /\ PatientsListed(req).calls = <<>>

\* PUT /api/prescriptions/[id] has answered 401 while a prescription is stored.
C7_Witness ==
  /\ response = [op |-> "PUT /api/prescriptions/[id]", status |-> 401]
  /\ prescriptions # <<>>

(***************************************************************************)
(* Properties of the prescription routes and of the issuing page           *)
(***************************************************************************)
Submitted(in) ==
  CreatePrescriptionSubmit(doctors, patients, prescriptions, chain, clock, in)

\* The form passes the page's checks and the transaction is confirmed.
ChainConfirmed(in) == in.patientAddress # "" /\ in.filled /\ in.txOk

Count(calls, name) == Cardinality({i \in DOMAIN calls : calls[i] = name})

\* C8: the prescription is issued and confirmed on chain before the database
\* write is attempted; when the database write fails, or no patient record
\* has the address, the on-chain prescription stays, no database
\* prescription exists, and nothing is sent again or undone.
C8_NoCompensation ==
  \A in \in SubmitInputs :
    LET r == Submitted(in)
        failed == \E i \in DOMAIN r.sent : r.sent[i].status # 200
        noPatient == ~\E p \in Range(patients) : p.blockId = in.patientAddress
    IN
    /\ \A i \in DOMAIN r.calls :
         r.calls[i] \in {"GET /api/patients", "POST /api/prescriptions"} =>
           \E j \in 1..(i - 1) : r.calls[j] = "tx.wait"
    /\ ~ChainConfirmed(in) => r.chain = chain /\ r.prescriptions = prescriptions
    /\ (ChainConfirmed(in) /\ (failed \/ noPatient)) =>
         /\ r.chain = IssuePrescriptionOnChain(chain, in.wallet, in.patientAddress, clock)
         /\ r.prescriptions = prescriptions
         /\ Count(r.calls, "contract.issuePrescription") = 1
         /\ Count(r.calls, "POST /api/prescriptions") <= 1

\* The page reported an error after the transaction was confirmed: the
\* prescription is on chain and not in the database.
C8_Witness ==
  /\ page = [toast |-> "Error", txConfirmed |-> TRUE, dbSaved |-> FALSE]
  /\ response = [op |-> "POST /api/prescriptions", status |-> 422]
  /\ Len(chain) = 1
  /\ prescriptions = <<>>

\* C10: a prescription is created only by a request answered 200, for the
\* one doctor profile of the caller and the patient the body's patientId
\* names; a caller without a doctor profile is answered 403 and nothing is
\* created.
C10_PrescriptionOwners ==
  \A req \in PrescriptionsPostRequests :
    LET r == RxCreated(req) IN
    /\ r.status # 200 => r.prescriptions = prescriptions
    /\ r.status = 200 =>
         /\ Len(r.prescriptions) = Len(prescriptions) + 1
         /\ SubSeq(r.prescriptions, 1, Len(prescriptions)) = prescriptions
         /\ LET p == r.prescriptions[Len(r.prescriptions)] IN
            /\ Cardinality({i \in DOMAIN doctors :
                 doctors[i].id = p.doctorId /\ doctors[i].userId = req.user}) = 1
            /\ p.patientId = req.body.patientId
    /\ (req.user # NoUser /\ ~\E d \in Range(doctors) : d.userId = req.user) =>
         r.status = 403 /\ r.prescriptions = prescriptions

\* A prescription of doctor d2 for patient p2 is stored and a caller without
\* a doctor profile has been answered 403.
C10_Witness ==
  /\ response = [op |-> "POST /api/prescriptions", status |-> 403]
  /\ \E p \in Range(prescriptions) : p.doctorId = "d2" /\ p.patientId = "p2"

(***************************************************************************)
(* Properties of the anonymous-prescription scheme                         *)
(***************************************************************************)
\* C2: verification succeeds only when the commitment recomputed from the
\* entered secret key equals the commitment stored for the prescription id.
C2_SecretKeyDecides ==
  (verification.shown /\ verification.isValid) =>
    \E i \in DOMAIN txLog :
      /\ i = AnonymousIdOf(verification.prescriptionId)
      /\ parseCommitmentForContract(
           generateCommitment(
             [txLog[i].data EXCEPT !.secretKey = verification.secretKey],
             txLog[i].now))
         = anonymous[i].commitment

SameInput(d, t, e, u) ==
  /\ d.medications = e.medications
  /\ d.diagnosis = e.diagnosis
  /\ d.doctorId = e.doctorId
  /\ t = u
  /\ d.secretKey = e.secretKey

\* C3: the commitment is H( H(medications, diagnosis, doctorId, timestamp)
\* || H(secretKey) ), and two inputs have the same commitment exactly when
\* medications, diagnosis, doctorId, timestamp and secretKey are all equal.
C3_CommitmentBinds ==
  /\ \A i, j \in DOMAIN txLog :
       (txLog[i].args.input = txLog[j].args.input)
         <=> SameInput(txLog[i].data, txLog[i].now, txLog[j].data, txLog[j].now)
  /\ \A i \in DOMAIN txLog :
       txLog[i].args.input[1] =
         keccak256(solidityPacked(
           keccak256(DataString(txLog[i].data, txLog[i].now)),
           keccak256(txLog[i].data.secretKey)))

\* Two submissions that differ in the secret key alone were made.
C3_Witness ==
  \E i, j \in DOMAIN txLog :
    /\ txLog[i].data.medications = txLog[j].data.medications
    /\ txLog[i].data.diagnosis = txLog[j].data.diagnosis
    /\ txLog[i].data.doctorId = txLog[j].data.doctorId
    /\ txLog[i].now = txLog[j].now
    /\ txLog[i].data.secretKey # txLog[j].data.secretKey
    /\ txLog[i].args.input # txLog[j].args.input

\* The text fields of the call: diagnosis, the medication fields and the
\* proof components.
TextArguments(args) ==
  {args.diagnosis}
  \cup UNION {{args.medications[i].name, args.medications[i].dosage,
               args.medications[i].duration,
               args.medications[i].additionalInstructions} :
              i \in DOMAIN args.medications}
  \cup Range(args.a) \cup Range(args.c)
  \cup UNION {Range(args.b[i]) : i \in DOMAIN args.b}

\* C4: the issueAnonymousPrescription call carries the commitment and the
\* proof, and carries neither the plaintext medications nor the diagnosis.
C4_NoPlaintextOnChain ==
  \A i \in DOMAIN txLog :
    LET t == txLog[i] IN
    /\ t.args.commitment = parseCommitmentForContract(generateCommitment(t.data, t.now))
    /\ t.args.a = generateZKProof(t.data, t.now).proof.a
    /\ t.args.medications # t.data.medications
    /\ t.data.diagnosis \notin TextArguments(t.args)

\* Every identifier of a patient the application knows.
PatientIdentifiers ==
  {p.id : p \in Range(patients)} \cup {p.blockId : p \in Range(patients)}
  \cup {p.userId : p \in Range(patients)}

\* C5: no patient identifier and no secret key is among the values sent to
\* the contract; the commitment and the public input are the hash-derived
\* commitment, and the sender is the doctor's wallet.
C5_NoSecretNoPatient ==
  \A i \in DOMAIN txLog :
    LET t == txLog[i] IN
    /\ t.data.secretKey \notin TextArguments(t.args)
    /\ TextArguments(t.args) \cap PatientIdentifiers = {}
    /\ t.sender \notin PatientIdentifiers
    /\ t.args.commitment = parseCommitmentForContract(generateCommitment(t.data, t.now))
    /\ t.args.input = <<generateCommitment(t.data, t.now)>>

\* Two anonymous prescriptions were issued with different secret keys.
C5_Witness ==
  /\ Len(txLog) = 2
  /\ Len(anonymous) = 2
  /\ txLog[1].data.secretKey # txLog[2].data.secretKey

(***************************************************************************)
(* Properties of concurrent POST /api/appointments requests                *)
(***************************************************************************)
\* C11: no two stored PENDING or CONFIRMED appointments of the same doctor,
\* or of the same patient, overlap in time.
C11_NoDoubleBooking ==
  \A i, j \in DOMAIN appointments :
    (/\ i # j
     /\ \/ appointments[i].doctorId = appointments[j].doctorId
        \/ appointments[i].patientId = appointments[j].patientId
     /\ appointments[i].status \in {"PENDING", "CONFIRMED"})
    => ~ActiveOverlap(appointments[j], appointments[i].startTime, appointments[i].endTime)

\* C20: a user has at most one patient record.
C20_OnePatientRecord ==
  \A u \in Users : Cardinality({i \in DOMAIN patients : patients[i].userId = u}) <= 1

(***************************************************************************)
(* Properties of reading and updating prescriptions                        *)
(***************************************************************************)
\* C12: GET /api/prescriptions in the patient role returns only database
\* prescriptions of the caller's patient record and on-chain prescriptions
\* whose patientAddress is the wallet address of the session.
C12_PatientSeesOwn ==
  \A req \in PrescriptionsGetRequests :
    (req.user # NoUser /\ req.role = "patient" /\ RxListed(req).status = 200) =>
      \A i \in DOMAIN RxListed(req).body :
        LET row == RxListed(req).body[i] IN
        IF row.blockchainOnly
        THEN row.patientRef = WalletOf(req.user)
        ELSE \E p \in Range(patients) : p.userId = req.user /\ p.id = row.patientRef

\* The ids and addresses under which the user of a request is on record.
DoctorIdsOf(u) == {d.id : d \in {x \in Range(doctors) : x.userId = u}}
PatientIdsOf(u) == {p.id : p \in {x \in Range(patients) : x.userId = u}}
BlockIdsOf(u) ==
  {d.blockId : d \in {x \in Range(doctors) : x.userId = u}}
  \cup {p.blockId : p \in {x \in Range(patients) : x.userId = u}}

\* The caller is the doctor or the patient of a prescription with the
\* requested id, in the database or on chain.
Entitled(req) ==
  \/ \E p \in Range(prescriptions) :
       /\ p.id = req.id
       /\ p.doctorId \in DoctorIdsOf(req.user) \/ p.patientId \in PatientIdsOf(req.user)
  \/ \E c \in Range(chain) :
       /\ ToString(c.id) = req.id
       /\ c.doctorAddress \in BlockIdsOf(req.user) \/ c.patientAddress \in BlockIdsOf(req.user)

\* C13: GET /api/prescriptions/[id] answers an authenticated caller with a
\* prescription only if the caller is its doctor or its patient, and the
\* prescription is the one with the requested id; any other caller is
\* answered 404 with no prescription.
C13_OnlyDoctorOrPatient ==
  \A req \in PrescriptionGetRequests : req.user # NoUser =>
    LET r == RxFetched(req) IN
    /\ r.status = 200 =>
         /\ Entitled(req)
         /\ Len(r.body) = 1
         /\ r.body[1].id = req.id
         /\ IF r.body[1].blockchainOnly
            THEN \/ r.body[1].doctorRef \in BlockIdsOf(req.user)
                 \/ r.body[1].patientRef \in BlockIdsOf(req.user)
            ELSE \/ r.body[1].doctorRef \in DoctorIdsOf(req.user)
                 \/ r.body[1].patientRef \in PatientIdsOf(req.user)
    /\ ~Entitled(req) => r.status = 404 /\ r.body = <<>>

\* A request was answered 404; in this store a caller who is neither doctor
\* nor patient of the on-chain prescription asked for gets 404 while the
\* chain is reachable, and a party to it gets the prescription.
C13_Witness ==
  /\ response = [op |-> "GET /api/prescriptions/[id]", status |-> 404]
  /\ \E req \in PrescriptionGetRequests :
       /\ req.user # NoUser /\ req.chainUp /\ ~Entitled(req)
       /\ \E c \in Range(chain) : ToString(c.id) = req.id
       /\ RxFetched(req).status = 404
  /\ \E req \in PrescriptionGetRequests :
       /\ RxFetched(req).status = 200
       /\ RxFetched(req).body[1].blockchainOnly

\* C14: a caller in the patient role without a patient record, whose wallet
\* address is the patientAddress of the on-chain prescription with the
\* requested id, receives that prescription.
C14_ChainFallback ==
  \A req \in PrescriptionGetRequests :
    (/\ req.user # NoUser
     /\ userRole[req.user] # "doctor"
     /\ PatientsOfUser(patients, req.user) = <<>>
     /\ req.chainUp
     /\ ParseInt(req.id) \in DOMAIN chain
     /\ chain[ParseInt(req.id)].patientAddress = WalletOf(req.user))
    => /\ RxFetched(req).status = 200
       /\ RxFetched(req).body = <<ChainRow(chain[ParseInt(req.id)])>>

\* The caller has a doctor profile that owns a stored prescription with the
\* requested id.
Owns(req) ==
  \E i \in DOMAIN prescriptions :
    prescriptions[i].id = req.id /\ prescriptions[i].doctorId \in DoctorIdsOf(req.user)

\* What C15 says of every PUT, whatever is answered to a doctor who does not
\* own the prescription: only an owner's request modifies, and only the
\* prescription with the requested id; without a doctor profile the answer
\* is 403; a request of a caller who does not own it changes nothing.
OwnerOnly(req) ==
  LET r == RxUpdated(req) IN
  /\ Len(r.prescriptions) = Len(prescriptions)
  /\ r.prescriptions # prescriptions => Owns(req)
  /\ \A i \in DOMAIN prescriptions :
       r.prescriptions[i] # prescriptions[i] => prescriptions[i].id = req.id
  /\ DoctorIdsOf(req.user) = {} => r.status = 403
  /\ ~Owns(req) => r.prescriptions = prescriptions

\* C15, as claimed: in addition, a doctor who does not own the prescription
\* is answered 404.
C15_NonOwnerAlways404 ==
  \A req \in PrescriptionPutRequests : req.user # NoUser =>
    /\ OwnerOnly(req)
    /\ (DoctorIdsOf(req.user) # {} /\ ~Owns(req)) => RxUpdated(req).status = 404

\* C15, amended: a doctor who does not own the prescription is answered 404
\* when the request body is JSON and 500 when it is not.
C15_NonOwnerUnchanged ==
  \A req \in PrescriptionPutRequests : req.user # NoUser =>
    /\ OwnerOnly(req)
    /\ (DoctorIdsOf(req.user) # {} /\ ~Owns(req)) =>
         RxUpdated(req).status = IF req.body.wellformed THEN 404 ELSE 500

\* A doctor was answered 404 while a prescription of another doctor is
\* stored, and that prescription carries no note.
C15_Witness ==
  /\ response = [op |-> "PUT /api/prescriptions/[id]", status |-> 404]
  /\ \E p \in Range(prescriptions) : p.doctorId = "d2" /\ p.notes = ""
  /\ \E req \in PrescriptionPutRequests :
       /\ req.user = "u1" /\ req.body.wellformed /\ ~Owns(req)
       /\ \E p \in Range(prescriptions) : p.id = req.id

\* C16: no step changes the doctorId or the patientId of a stored
\* prescription.
C16_NoTransfer ==
  [][\A i \in DOMAIN prescriptions :
       /\ prescriptions'[i].doctorId = prescriptions[i].doctorId
       /\ prescriptions'[i].patientId = prescriptions[i].patientId]_vars

(***************************************************************************)
(* Properties of the writes of POST /api/appointments                      *)
(***************************************************************************)
\* C17: a user whose role is "doctor" or "patient" has the same role after
\* every step.
C17_RoleKept ==
  [][\A u \in Users :
       userRole[u] \in {"doctor", "patient"} => userRole'[u] = userRole[u]]_vars

\* C18: a POST /api/appointments answered 400, 404, 409 or 500 creates no
\* patient record, changes no user role and stores no appointment.
C18_ErrorWritesNothing ==
  \A req \in AppointmentPostRequests :
    Booked(req).status \in {400, 404, 409, 500} =>
      /\ Booked(req).patients = patients
      /\ Booked(req).userRole = userRole
      /\ Booked(req).appointments = appointments

\* C19: every stored appointment starts strictly before it ends, and a
\* request whose endTime is not after its startTime is answered 400 and
\* stores nothing.
C19_StartBeforeEnd ==
  /\ \A a \in Range(appointments) : a.startTime < a.endTime
  /\ \A req \in BookingRequests :
       req.body.endTime <= req.body.startTime =>
         Booked(req).status = 400 /\ Booked(req).appointments = appointments

(***************************************************************************)
(* Properties of GET /api/appointments                                     *)
(***************************************************************************)
\* The id of the profile GET /api/appointments answers for: the doctor
\* profile of a user whose stored role is "doctor", the patient profile of
\* any other user; {} when the user has no such profile.
ProfileIdsOf(u) ==
  IF userRole[u] = "doctor" THEN DoctorIdsOf(u) ELSE PatientIdsOf(u)

\* C21: GET /api/appointments answers an authenticated caller only with
\* stored appointments of the caller's own profile (doctorId for the stored
\* role "doctor", patientId otherwise), all of the status the query names
\* when it names one; a caller without such a profile is answered 404.
C21_OwnAppointmentsOnly ==
  \A req \in AppointmentGetRequests : req.user # NoUser =>
    LET r == Listed(req) IN
    /\ ProfileIdsOf(req.user) = {} => r.status = 404 /\ r.body = <<>>
    /\ r.status # 200 => r.body = <<>>
    /\ \A i \in DOMAIN r.body :
         /\ r.body[i] \in Range(appointments)
         /\ IF userRole[req.user] = "doctor"
            THEN r.body[i].doctorId \in DoctorIdsOf(req.user)
            ELSE r.body[i].patientId \in PatientIdsOf(req.user)
         /\ req.status # Absent => r.body[i].status = req.status

\* A list was answered 200 while the store holds appointments of two
\* patients; one caller is given some but not all of them, and a caller
\* without a profile is answered 404.
C21_Witness ==
  /\ response = [op |-> "GET /api/appointments", status |-> 200]
  /\ \E a, b \in Range(appointments) : a.patientId # b.patientId
  /\ \E req \in AppointmentGetRequests :
       /\ Listed(req).status = 200
       /\ Listed(req).body # <<>>
       /\ Len(Listed(req).body) < Len(appointments)
  /\ \E req \in AppointmentGetRequests : req.user # NoUser /\ Listed(req).status = 404

(***************************************************************************)
(* Properties of the list of GET /api/prescriptions                        *)
(***************************************************************************)
\* The rows of the caller's database prescriptions: those of the caller's
\* doctor profile in the doctor role, of the caller's patient profile in the
\* patient role.
OwnDbRows(req) ==
  {DbRow(p) : p \in {x \in Range(prescriptions) :
     IF req.role = "doctor" THEN x.doctorId \in DoctorIdsOf(req.user)
     ELSE x.patientId \in PatientIdsOf(req.user)}}

\* The rows of the on-chain prescriptions read for the request.
OnChainRows(req) ==
  IF ~req.chainUp THEN {}
  ELSE IF req.role = "doctor"
  THEN {ChainRow(c) : c \in {x \in Range(chain) : x.doctorAddress \in BlockIdsOf(req.user)}}
  ELSE {ChainRow(c) : c \in Range(chain)}

\* C22: the list is the caller's database prescriptions plus the on-chain
\* prescriptions whose id is not the id of one of those; no id occurs twice;
\* the list is ordered by issueDate, most recent first.
C22_MergedList ==
  \A req \in PrescriptionsGetRequests : RxListed(req).status = 200 =>
    LET body == RxListed(req).body IN
    /\ Range(body) =
         OwnDbRows(req)
         \cup {c \in OnChainRows(req) : \A d \in OwnDbRows(req) : d.id # c.id}
    /\ \A i, j \in DOMAIN body : i # j => body[i].id # body[j].id
    /\ \A i, j \in DOMAIN body : i < j => body[i].issueDate >= body[j].issueDate

\* A list was answered 200 in a store where a database prescription and an
\* on-chain prescription of the same doctor have the same id; that doctor's
\* list is the database version alone.
C22_Witness ==
  /\ response = [op |-> "GET /api/prescriptions", status |-> 200]
  /\ \E p \in Range(prescriptions), c \in Range(chain) :
       p.id = ToString(c.id) /\ p.doctorId = "d1" /\ c.doctorAddress = "0xa1"
  /\ \E req \in PrescriptionsGetRequests :
       /\ req.user = "u1" /\ req.role = "doctor" /\ req.chainUp
       /\ RxListed(req).status = 200
       /\ Len(RxListed(req).body) = 1
       /\ ~RxListed(req).body[1].blockchainOnly

\* A list of two rows whose second row was stored first.
C22_Ordered ==
  \E req \in PrescriptionsGetRequests :
    /\ RxListed(req).status = 200
    /\ Len(RxListed(req).body) = 2
    /\ RxListed(req).body[1].blockchainOnly
    /\ RxListed(req).body[1].issueDate > RxListed(req).body[2].issueDate

(***************************************************************************)
(* Properties of generateCommitment and generateZKProof                    *)
(***************************************************************************)
SameData(d, e) ==
  /\ d.medications = e.medications
  /\ d.diagnosis = e.diagnosis
  /\ d.doctorId = e.doctorId
  /\ d.secretKey = e.secretKey

\* C23: two calls of generateCommitment with equal medications, diagnosis,
\* doctorId and secretKey return the same commitment, whenever they are made.
C23_Deterministic ==
  \A i, j \in DOMAIN txLog :
    SameData(txLog[i].data, txLog[j].data)
      => txLog[i].args.input = txLog[j].args.input

\* C24: the proof components a, b and c of every submission are the same
\* fixed values, whatever the prescription and the secret key; inputs[0] is
\* the commitment of the submission's data, the only part that varies.
C24_FabricatedProof ==
  /\ \A i \in DOMAIN txLog :
       /\ txLog[i].args.a = <<"0x1234", "0x5678">>
       /\ txLog[i].args.b = << <<"0xabcd", "0xef01">>, <<"0x2345", "0x6789">> >>
       /\ txLog[i].args.c = <<"0x9abc", "0xdef0">>
       /\ txLog[i].args.input = <<generateCommitment(txLog[i].data, txLog[i].now)>>
  /\ \A i, j \in DOMAIN txLog :
       /\ txLog[i].args.a = txLog[j].args.a
       /\ txLog[i].args.b = txLog[j].args.b
       /\ txLog[i].args.c = txLog[j].args.c
       /\ ~SameData(txLog[i].data, txLog[j].data)
            => txLog[i].args.input # txLog[j].args.input

\* Two submissions with different diagnoses and different secret keys carry
\* the same proof components and different public inputs.
C24_Witness ==
  \E i, j \in DOMAIN txLog :
    /\ txLog[i].data.diagnosis # txLog[j].data.diagnosis
    /\ txLog[i].data.secretKey # txLog[j].data.secretKey
    /\ txLog[i].args.a = txLog[j].args.a
    /\ txLog[i].args.b = txLog[j].args.b
    /\ txLog[i].args.c = txLog[j].args.c
    /\ txLog[i].args.input # txLog[j].args.input

====
